---- MODULE Spec2Model ----
(***************************************************************************)
(* State-machine model of the connection-lifecycle core:                   *)
(*   - builtin/logical/database/backend.go : the connection cache          *)
(*   - plugins/helper/database/connutil/sql.go : the SQL producer          *)
(* Strings that the code takes apart (storage keys) are sequences of       *)
(* one-character strings, so prefix tests and trimming are computed.       *)
(***************************************************************************)
EXTENDS Integers, Sequences, FiniteSets, TLC

\* ------------------------------------------------------------------ bounds
NumProcs == 2
MaxInst == 3
MaxVer == 2
MaxCloseErr == 1
MaxHandles == 3
MaxInits == 2
MaxUrls == 2

Procs == 1..NumProcs
InstIds == 1..MaxInst
NoDB == 0

\* ---------------------------------------------------------------- strings
slash == "/"
S_config == <<"c", "o", "n", "f", "i", "g">>
S_database == <<"d", "a", "t", "a", "b", "a", "s", "e">>
S_role == <<"r", "o", "l", "e">>

\* connection names used by the callers of the model
Names == {<<"a">>, <<"b">>}

\* const databaseConfigPath = "database/config/"
databaseConfigPath == S_database \o <<slash>> \o S_config \o <<slash>>

\* fmt.Sprintf("config/%s", name): the storage path DatabaseConfig reads
ConfigStorePath(name) == S_config \o <<slash>> \o name

\* "role/" + roleName: the storage path Role reads
RoleStorePath(name) == S_role \o <<slash>> \o name

\* strings.HasPrefix
HasPrefix(s, prefix) ==
    /\ Len(s) >= Len(prefix)
    /\ SubSeq(s, 1, Len(prefix)) = prefix

\* strings.TrimPrefix
TrimPrefix(s, prefix) ==
    IF HasPrefix(s, prefix) THEN SubSeq(s, Len(prefix) + 1, Len(s)) ELSE s

\* the key paths an invalidation notification may carry
Keys ==
    {ConfigStorePath(n) : n \in Names}
        \cup {databaseConfigPath \o n : n \in Names}
        \cup {RoleStorePath(n) : n \in Names}

\* the errors handed to CloseIfShutdown: the two sentinels and another one
ShutdownErrs == {"rpc.ErrShutdown", "dbplugin.ErrPluginShutdown", "other"}

\* --------------------------------------------------------------- variables
VARIABLES
    connections,  \* b.connections: name -> instance id (NoDB: no entry)
    rlocks,       \* RWMutex: the goroutines holding the shared lock
    wlock,        \* RWMutex: the goroutine holding the exclusive lock (0: none)
    insts,        \* the capability instances constructed so far
    nextInst,     \* the id the next constructed instance gets
    pc,           \* each goroutine's position
    loc,          \* each goroutine's call arguments, locals and call record
    lastOp,       \* the cache call that returned last, while no other call runs
    closeErrs,    \* number of Close calls that returned an error so far
    fatal,        \* the Go runtime has thrown (concurrent map access)
    \* one SQLConnectionProducer (connutil/sql.go)
    c,            \* the producer's fields
    handles,      \* the *sql.DB handles opened so far
    nextHandle,   \* the id the next opened handle gets
    last,         \* the producer call that returned last, and what it did
    hist,         \* the Initialize calls so far: their number, what they reached
    \* one directory client (helper/activedirectory/client.go)
    adConf,       \* c.conf: the client's configuration
    ad,           \* the client call in progress: its position, locals and record
    \* one call of ldap.NewConfiguration (helper/ldap/config.go)
    ldapCfg,      \* its field data, its position, and what it returned
    \* one call of Role (backend.go)
    roleCall,     \* the stored entry, the call's position, and what it returned
    \* goroutines calling one SQLConnectionProducer concurrently
    sp            \* each goroutine's position and locals in Connection / Close

cacheVars == <<connections, rlocks, wlock, insts, nextInst, pc, loc, lastOp,
               closeErrs, fatal>>

sqlVars == <<c, handles, nextHandle, last, hist>>

adVars == <<adConf, ad>>

fnVars == <<ldapCfg, roleCall, sp>>

vars == <<cacheVars, sqlVars, adVars, fnVars>>

\* an instance: the name and config it was built for, the number of
\* Initialize and Close calls made on it, and whether Initialize succeeded
NoInst == [made |-> FALSE, name |-> <<>>, cfg |-> 0, inits |-> 0, closes |-> 0,
           ok |-> FALSE]

\* an instance that no map entry and no goroutine refers to any more
Gone == [made |-> TRUE, name |-> <<>>, cfg |-> 0, inits |-> 0, closes |-> 0,
         ok |-> FALSE]

NoOp == [op |-> "none", name |-> <<>>, arg |-> <<>>, err |-> "nil", inst |-> NoDB]

\* no GetConnection on the same name has returned an instance during this call
NoPeer == [inst |-> NoDB, built |-> FALSE, miss1 |-> FALSE]

EmptyMap == [n \in Names |-> NoDB]

Loc0 ==
    [op |-> "none", name |-> <<>>, arg |-> <<>>,
     unlockFunc |-> "none", db |-> NoDB, cfg |-> 0, todo |-> {},
     retDb |-> NoDB, retErr |-> "nil",
     \* the call's record (history, read by the properties only)
     prev |-> NoOp, peer |-> NoPeer,
     miss1 |-> FALSE, hit2 |-> FALSE, loaded |-> FALSE, built |-> FALSE,
     cleared |-> FALSE, pre |-> {}, closed |-> <<>>]

CacheInit ==
    /\ connections = EmptyMap
    /\ rlocks = {}
    /\ wlock = 0
    /\ insts = [i \in InstIds |-> NoInst]
    /\ nextInst = 1
    /\ pc = [p \in Procs |-> "idle"]
    /\ loc = [p \in Procs |-> Loc0]
    /\ lastOp = NoOp
    /\ closeErrs = 0
    /\ fatal = FALSE

\* b.connections[name] with the comma-ok form: NoDB when there is no entry
Lookup(name) == IF name \in Names THEN connections[name] ELSE NoDB

Cached == {n \in Names : connections[n] # NoDB}

CachedInsts == {connections[n] : n \in Cached}

\* ------------------------------------------------------------ call entry
Busy(p) == {q \in Procs \ {p} : pc[q] # "idle"}

\* A goroutine enters a cache operation with locals l. A GetConnection that
\* starts while no other call runs, right after a call on the same name,
\* notes that call (prev); the note is dropped as soon as another call starts.
\* The note of a concurrent GetConnection's result (peer) is dropped as soon
\* as a call of another operation starts.
Begin(p, l, next) ==
    /\ pc[p] = "idle"
    /\ ~fatal
    /\ loc' = [q \in Procs |->
                 IF q = p
                 THEN [l EXCEPT !.prev = IF Busy(p) = {} /\ l.op = "GetConnection"
                                            /\ lastOp.name = l.name
                                         THEN lastOp ELSE NoOp]
                 ELSE [loc[q] EXCEPT !.prev = NoOp,
                                     !.peer = IF l.op = "GetConnection" THEN @
                                              ELSE NoPeer]]
    /\ lastOp' = NoOp
    /\ pc' = [pc EXCEPT ![p] = next]
    /\ UNCHANGED <<sqlVars, adVars, fnVars>>

\* the instances a goroutine's locals refer to
Refs(l) ==
    {l.db, l.retDb, l.prev.inst, l.peer.inst}
        \cup {l.closed[k][1] : k \in 1..Len(l.closed)}

\* the calls in flight besides p's are all GetConnection calls
OnlyGets(p) == \A q \in Busy(p) : loc[q].op = "GetConnection"

\* The call returns: the deferred unlock has run and the goroutine's locals
\* are gone. A GetConnection that returns an instance while only GetConnection
\* calls are in flight leaves a note (peer) with those on the same name. An
\* instance that neither the map nor any goroutine refers to any more is
\* garbage and its record is dropped.
Finish(p, l) ==
    /\ loc' = [q \in Procs |->
                 IF q = p THEN Loc0
                 ELSE IF /\ l.op = "GetConnection" /\ l.retErr = "nil"
                         /\ OnlyGets(p)
                         /\ pc[q] # "idle" /\ loc[q].name = l.name
                 THEN [loc[q] EXCEPT !.peer = [inst |-> l.retDb, built |-> l.built,
                                               miss1 |-> l.miss1]]
                 ELSE loc[q]]
    /\ lastOp' = IF Busy(p) # {} THEN NoOp
                 ELSE [op |-> l.op, name |-> l.name, arg |-> l.arg,
                       err |-> l.retErr, inst |-> IF l.op = "GetConnection"
                                                  THEN l.retDb ELSE l.db]
    /\ pc' = [pc EXCEPT ![p] = "idle"]
    /\ LET live == CachedInsts \cup {lastOp'.inst}
                       \cup UNION {Refs(loc'[q]) : q \in Procs \ {p}}
       IN  insts' = [i \in InstIds |->
                       IF insts[i].made /\ i \notin live THEN Gone ELSE insts[i]]
    /\ UNCHANGED <<sqlVars, adVars, fnVars>>

\* ---------------------------------------------------------------- RWMutex
CanRLock == wlock = 0
CanLock == wlock = 0 /\ rlocks = {}

\* deferred unlockFunc(): RUnlock or Unlock, whichever the variable holds.
\* Releasing a lock that is not held makes the runtime throw.
UnlockFuncRuns(p, l) ==
    IF l.unlockFunc = "RUnlock"
    THEN /\ rlocks' = rlocks \ {p}
         /\ wlock' = wlock
         /\ fatal' = (p \notin rlocks)
    ELSE /\ wlock' = 0
         /\ rlocks' = rlocks
         /\ fatal' = (wlock = 0)

\* return from a call that holds a lock: the deferred unlock runs
Return(p, at) ==
    /\ pc[p] = at /\ ~fatal
    /\ UnlockFuncRuns(p, loc[p])
    /\ Finish(p, loc[p])
    /\ UNCHANGED <<connections, nextInst, closeErrs>>


\* ----------------------------------------------------------- GetConnection
InFlightGets == {q \in Procs : pc[q] # "idle" /\ loc[q].op = "GetConnection"}

CallGetConnection(p, n) ==
    /\ nextInst + Cardinality(InFlightGets) <= MaxInst
    /\ Begin(p, [Loc0 EXCEPT !.op = "GetConnection", !.name = n], "GC_RLock")
    /\ UNCHANGED <<connections, rlocks, wlock, insts, nextInst, closeErrs,
                   fatal>>

\* db, ok := b.connections[name] under the shared lock
FirstLookup(name) == Lookup(name)

\* b.RLock(); unlockFunc := b.RUnlock; defer func() { unlockFunc() }();
\* db, ok := b.connections[name]; if ok { return db, nil }
GC_RLock(p) ==
    /\ pc[p] = "GC_RLock" /\ ~fatal
    /\ CanRLock
    /\ rlocks' = rlocks \cup {p}
    /\ LET db == FirstLookup(loc[p].name)
       IN  IF db # NoDB
           THEN /\ loc' = [loc EXCEPT ![p].unlockFunc = "RUnlock", ![p].db = db,
                                      ![p].retDb = db]
                /\ pc' = [pc EXCEPT ![p] = "GC_Ret"]
           ELSE /\ loc' = [loc EXCEPT ![p].unlockFunc = "RUnlock",
                                      ![p].miss1 = TRUE]
                /\ pc' = [pc EXCEPT ![p] = "GC_RUnlock"]
    /\ UNCHANGED <<connections, wlock, insts, nextInst, lastOp, closeErrs,
                   fatal>>
    /\ UNCHANGED <<sqlVars, adVars, fnVars>>

\* Upgrade lock: b.RUnlock()
GC_RUnlock(p) ==
    /\ pc[p] = "GC_RUnlock" /\ ~fatal
    /\ rlocks' = rlocks \ {p}
    /\ fatal' = (p \notin rlocks)
    /\ pc' = [pc EXCEPT ![p] = "GC_Lock"]
    /\ UNCHANGED <<connections, wlock, insts, nextInst, loc, lastOp,
                   closeErrs>>
    /\ UNCHANGED <<sqlVars, adVars, fnVars>>

\* the re-check under the exclusive lock left out
SecondLookupSkipped(name) == NoDB

\* db, ok = b.connections[name] under the exclusive lock
SecondLookup(name) == Lookup(name)

\* what s.Get(ctx, "config/" + name) may find in the external store, which
\* the configuration endpoints write outside the cache's lock: no entry (0)
\* or a stored configuration
ConfigEntries == 0..MaxVer

\* DatabaseConfig: entry == nil is an error, else the decoded config
DatabaseConfig(entry) ==
    IF entry = 0 THEN [err |-> "config", config |-> 0]
    ELSE [err |-> "nil", config |-> entry]

\* an instance whose Initialize failed goes on to be cached
InitFailureCached(initOk) == TRUE

\* err = db.Initialize(...); if err != nil { db.Close(); return nil, err }:
\* whether GetConnection goes on to cache the instance
CachesInstance(initOk) == initOk

\* unlockFunc still releases the shared lock after the upgrade
UnlockFuncKept == "RUnlock"

\* Upgrade lock: unlockFunc = b.Unlock
UnlockFuncUpgraded == "Unlock"

\* b.Lock(); unlockFunc = b.Unlock; the re-check; on a miss DatabaseConfig,
\* dbplugin.PluginFactory and db.Initialize(ctx, config.ConnectionDetails, true)
GC_Lock(p) ==
    /\ pc[p] = "GC_Lock" /\ ~fatal
    /\ CanLock
    /\ wlock' = p
    /\ LET l == [loc[p] EXCEPT !.unlockFunc = UnlockFuncUpgraded]
           db == SecondLookup(l.name)
       IN  IF db # NoDB
           THEN /\ loc' = [loc EXCEPT ![p] = [l EXCEPT !.db = db, !.retDb = db,
                                                       !.hit2 = TRUE]]
                /\ pc' = [pc EXCEPT ![p] = "GC_Ret"]
                /\ UNCHANGED <<insts, nextInst>>
           ELSE \/ \* s.Get or DecodeJSON fails
                   /\ loc' = [loc EXCEPT ![p] = [l EXCEPT !.loaded = TRUE,
                                                          !.retErr = "config"]]
                   /\ pc' = [pc EXCEPT ![p] = "GC_Ret"]
                   /\ UNCHANGED <<insts, nextInst>>
                \/ \E entry \in ConfigEntries :
                     LET got == DatabaseConfig(entry)
                         lc == [l EXCEPT !.loaded = TRUE, !.cfg = got.config]
                     IN  IF got.err # "nil"
                         THEN /\ loc' = [loc EXCEPT ![p] =
                                           [lc EXCEPT !.retErr = got.err]]
                              /\ pc' = [pc EXCEPT ![p] = "GC_Ret"]
                              /\ UNCHANGED <<insts, nextInst>>
                         ELSE \/ \* PluginFactory fails: no instance
                                 /\ loc' = [loc EXCEPT ![p] =
                                              [lc EXCEPT !.retErr = "factory"]]
                                 /\ pc' = [pc EXCEPT ![p] = "GC_Ret"]
                                 /\ UNCHANGED <<insts, nextInst>>
                              \/ \E initOk \in BOOLEAN :
                                   LET id == nextInst
                                       made == [made |-> TRUE, name |-> l.name,
                                                cfg |-> got.config, inits |-> 1,
                                                closes |-> 0, ok |-> initOk]
                                       ll == [lc EXCEPT !.built = TRUE, !.db = id]
                                   IN  /\ nextInst' = nextInst + 1
                                       /\ IF CachesInstance(initOk)
                                          THEN /\ insts' = [insts EXCEPT ![id] = made]
                                               /\ loc' = [loc EXCEPT ![p] = ll]
                                               /\ pc' = [pc EXCEPT ![p] = "GC_Store"]
                                          ELSE /\ insts' = [insts EXCEPT ![id] =
                                                    [made EXCEPT !.closes = 1]]
                                               /\ loc' = [loc EXCEPT ![p] =
                                                    [ll EXCEPT !.retErr = "init"]]
                                               /\ pc' = [pc EXCEPT ![p] = "GC_Ret"]
    /\ UNCHANGED <<connections, rlocks, lastOp, closeErrs, fatal>>
    /\ UNCHANGED <<sqlVars, adVars, fnVars>>

\* b.connections[name] = db; return db, nil
GC_Store(p) ==
    /\ pc[p] = "GC_Store" /\ ~fatal
    /\ connections' = [connections EXCEPT ![loc[p].name] = loc[p].db]
    /\ loc' = [loc EXCEPT ![p].retDb = loc[p].db]
    /\ pc' = [pc EXCEPT ![p] = "GC_Ret"]
    /\ UNCHANGED <<rlocks, wlock, insts, nextInst, lastOp, closeErrs, fatal>>
    /\ UNCHANGED <<sqlVars, adVars, fnVars>>

GetConnection(p) ==
    \/ \E n \in Names : CallGetConnection(p, n)
    \/ GC_RLock(p)
    \/ GC_RUnlock(p)
    \/ GC_Lock(p)
    \/ GC_Store(p)
    \/ Return(p, "GC_Ret")

\* ---------------------------------------------------------- ClearConnection
\* Close is not called on the instance
CloseSkipped(i) == insts

\* Close on an instance: the call counts whatever it returns.
Closed(i) == [insts EXCEPT ![i].closes = @ + 1]

\* a Close call may return an error (at most MaxCloseErr times in a run)
CloseResults == IF closeErrs < MaxCloseErr THEN BOOLEAN ELSE {TRUE}

CallClearConnection(p, n) ==
    /\ Begin(p, [Loc0 EXCEPT !.op = "ClearConnection", !.name = n], "CC_Lock")
    /\ UNCHANGED <<connections, rlocks, wlock, insts, nextInst, closeErrs,
                   fatal>>

\* the entry is deleted whatever Close returned
ClearDeletesAlways(closeOk) == TRUE

\* if err := db.Close(); err != nil { return err }: the delete runs only
\* after a Close that returned no error
ClearDeletes(closeOk) == closeOk

\* b.Lock(); defer b.Unlock(); db, ok := b.connections[name];
\* if ok { if err := db.Close(); err != nil { return err } ... }
CC_Lock(p) ==
    /\ pc[p] = "CC_Lock" /\ ~fatal
    /\ CanLock
    /\ wlock' = p
    /\ LET l == [loc[p] EXCEPT !.unlockFunc = "Unlock", !.cleared = TRUE,
                                !.pre = CachedInsts]
           db == Lookup(l.name)
       IN  IF db = NoDB
           THEN /\ loc' = [loc EXCEPT ![p] = l]
                /\ pc' = [pc EXCEPT ![p] = "CC_Ret"]
                /\ UNCHANGED <<insts, closeErrs>>
           ELSE \E closeOk \in CloseResults :
                  LET ll == [l EXCEPT !.db = db,
                                      !.closed = Append(@, <<db, closeOk>>)]
                  IN  /\ insts' = Closed(db)
                      /\ closeErrs' = IF closeOk THEN closeErrs ELSE closeErrs + 1
                      /\ IF ClearDeletes(closeOk)
                         THEN /\ loc' = [loc EXCEPT ![p] = ll]
                              /\ pc' = [pc EXCEPT ![p] = "CC_Delete"]
                         ELSE /\ loc' = [loc EXCEPT ![p] =
                                           [ll EXCEPT !.retErr = "close"]]
                              /\ pc' = [pc EXCEPT ![p] = "CC_Ret"]
    /\ UNCHANGED <<connections, rlocks, nextInst, lastOp, fatal>>
    /\ UNCHANGED <<sqlVars, adVars, fnVars>>

\* the delete left out
DeleteSkipped(m, name) == m

\* delete(b.connections, name)
Deleted(m, name) == [m EXCEPT ![name] = NoDB]

\* delete(b.connections, name); return nil
CC_Delete(p) ==
    /\ pc[p] = "CC_Delete" /\ ~fatal
    /\ connections' = Deleted(connections, loc[p].name)
    /\ pc' = [pc EXCEPT ![p] = "CC_Ret"]
    /\ UNCHANGED <<rlocks, wlock, insts, nextInst, loc, lastOp, closeErrs,
                   fatal>>
    /\ UNCHANGED <<sqlVars, adVars, fnVars>>

\* CC_Ret: the deferred b.Unlock() runs. CloseIfShutdown and invalidate, when
\* they made the call, drop its result and return too.
ClearConnection(p) ==
    \/ \E n \in Names : CallClearConnection(p, n)
    \/ CC_Lock(p)
    \/ CC_Delete(p)
    \/ Return(p, "CC_Ret")

\* a call that took no lock returns
Ret(p) ==
    /\ pc[p] = "Ret" /\ ~fatal
    /\ Finish(p, loc[p])
    /\ UNCHANGED <<connections, rlocks, wlock, nextInst, closeErrs, fatal>>

\* ---------------------------------------------------------- CloseIfShutdown
\* switch err { case rpc.ErrShutdown, dbplugin.ErrPluginShutdown: ... }
IsShutdown(err) == err \in {"rpc.ErrShutdown", "dbplugin.ErrPluginShutdown"}

CloseIfShutdown(p) ==
    \E n \in Names, e \in ShutdownErrs :
        /\ Begin(p, [Loc0 EXCEPT !.op = "CloseIfShutdown", !.name = n, !.arg = e],
                 IF IsShutdown(e) THEN "CC_Lock" ELSE "Ret")
        /\ UNCHANGED <<connections, rlocks, wlock, insts, nextInst,
                       closeErrs, fatal>>

\* ---------------------------------------------------------------- invalidate
\* case strings.HasPrefix(key, databaseConfigPath)
InvalidateMatches(key) == HasPrefix(key, databaseConfigPath)

\* name := strings.TrimPrefix(key, databaseConfigPath)
InvalidateName(key) == TrimPrefix(key, databaseConfigPath)

invalidate(p) ==
    \E k \in Keys :
        /\ IF InvalidateMatches(k)
           THEN Begin(p, [Loc0 EXCEPT !.op = "invalidate", !.arg = k,
                                      !.name = InvalidateName(k)], "CC_Lock")
           ELSE Begin(p, [Loc0 EXCEPT !.op = "invalidate", !.arg = k], "Ret")
        /\ UNCHANGED <<connections, rlocks, wlock, insts, nextInst,
                       closeErrs, fatal>>

\* --------------------------------------------------------------- closeAllDBs
CallCloseAllDBs(p) ==
    /\ Begin(p, [Loc0 EXCEPT !.op = "closeAllDBs"], "CA_Lock")
    /\ UNCHANGED <<connections, rlocks, wlock, insts, nextInst, closeErrs,
                   fatal>>

\* b.Lock(); defer b.Unlock(); the range starts over the map as it is
CA_Lock(p) ==
    /\ pc[p] = "CA_Lock" /\ ~fatal
    /\ CanLock
    /\ wlock' = p
    /\ loc' = [loc EXCEPT ![p].unlockFunc = "Unlock", ![p].pre = CachedInsts,
                          ![p].todo = Cached]
    /\ pc' = [pc EXCEPT ![p] = IF Cached = {} THEN "CA_Reset" ELSE "CA_Range"]
    /\ UNCHANGED <<connections, rlocks, insts, nextInst, lastOp, closeErrs,
                   fatal>>
    /\ UNCHANGED <<sqlVars, adVars, fnVars>>

\* the loop ends at the first Close that returns an error
RangeStopsOnError(closeOk) == closeOk

\* for _, db := range b.connections { db.Close() }: the result is dropped
RangeContinues(closeOk) == TRUE

\* one iteration, in the map's (arbitrary) order
CA_Range(p) ==
    /\ pc[p] = "CA_Range" /\ ~fatal
    /\ \E n \in loc[p].todo, closeOk \in CloseResults :
         /\ insts' = Closed(connections[n])
         /\ closeErrs' = IF closeOk THEN closeErrs ELSE closeErrs + 1
         /\ loc' = [loc EXCEPT ![p].todo = @ \ {n},
                               ![p].closed = Append(@, <<connections[n], closeOk>>)]
         /\ pc' = [pc EXCEPT ![p] =
                     IF ~RangeContinues(closeOk) THEN "CA_Ret"
                     ELSE IF loc[p].todo = {n} THEN "CA_Reset" ELSE "CA_Range"]
    /\ UNCHANGED <<connections, rlocks, wlock, nextInst, lastOp, fatal>>
    /\ UNCHANGED <<sqlVars, adVars, fnVars>>

\* b.connections = make(map[string]dbplugin.Database)
CA_Reset(p) ==
    /\ pc[p] = "CA_Reset" /\ ~fatal
    /\ connections' = EmptyMap
    /\ pc' = [pc EXCEPT ![p] = "CA_Ret"]
    /\ UNCHANGED <<rlocks, wlock, insts, nextInst, loc, lastOp, closeErrs,
                   fatal>>
    /\ UNCHANGED <<sqlVars, adVars, fnVars>>

closeAllDBs(p) ==
    \/ CallCloseAllDBs(p)
    \/ CA_Lock(p)
    \/ CA_Range(p)
    \/ CA_Reset(p)
    \/ Return(p, "CA_Ret")

\* -------------------------------------------------------------- periodicFunc
CallPeriodicFunc(p) ==
    /\ Begin(p, [Loc0 EXCEPT !.op = "periodicFunc"], "PF_Range")
    /\ UNCHANGED <<connections, rlocks, wlock, insts, nextInst, closeErrs,
                   fatal>>

\* for _, db := range b.connections { _ = db }; return nil. No lock is taken.
PF_Range(p) ==
    /\ pc[p] = "PF_Range" /\ ~fatal
    /\ Finish(p, [loc[p] EXCEPT !.pre = CachedInsts])
    /\ UNCHANGED <<connections, rlocks, wlock, nextInst, closeErrs, fatal>>

periodicFunc(p) ==
    \/ CallPeriodicFunc(p)
    \/ PF_Range(p)

\* ------------------------------------------------------ unsynchronized access
\* the goroutine's next step reads the connections map
ReadsMap(p) == pc[p] = "PF_Range"

\* the goroutine's next step writes an entry of the map
WritesMap(p) == pc[p] \in {"GC_Store", "CC_Delete"}

\* the goroutine's next step replaces the map
ReplacesMap(p) == pc[p] = "CA_Reset"

\* The runtime may detect an iteration that runs during a map write and
\* throw "concurrent map iteration and map write"; the process ends.
Fatal ==
    /\ ~fatal
    /\ \E p, q \in Procs : ReadsMap(p) /\ WritesMap(q)
    /\ fatal' = TRUE
    /\ UNCHANGED <<connections, rlocks, wlock, insts, nextInst, pc, loc,
                   lastOp, closeErrs>>
    /\ UNCHANGED <<sqlVars, adVars, fnVars>>

\* =================================================== SQLConnectionProducer
\* A connection string is a sequence of tokens; the pieces the code looks
\* for ("{{username}}", "{{password}}", "postgres://", "?") are tokens.
T_username == "{{username}}"
T_password == "{{password}}"

U_plain == <<"root:pw@tcp(host)/db">>
U_templ == <<"postgres://", T_username, ":", T_password, "@host/db">>
U_query == <<"postgresql://", "host/db", "?", "sslmode=disable">>
U_baddsn == <<"%zz">>
U_half == <<"postgres://", T_username, "@host/db">>

\* strings.Contains(s, token)
Contains(s, token) == \E k \in 1..Len(s) : s[k] = token

\* a key that the conf map does not hold
Absent == "absent"
AbsentURL == <<Absent>>

\* the keys of the int fields
K_open == "max_open_connections"
K_idle == "max_idle_connections"

\* a conf map with no keys
EmptyConf ==
    [connection_url |-> AbsentURL, username |-> Absent, password |-> Absent,
     ints |-> {}, max_open_connections |-> 0, max_idle_connections |-> 0,
     max_connection_lifetime |-> Absent, decodeErr |-> FALSE]

\* the conf maps handed to Initialize: every connection_url without and with
\* credentials, the pool settings, the lifetime settings, a lone username, a
\* max_open_connections that does not decode to an int, and the empty map
Confs ==
    {[EmptyConf EXCEPT !.connection_url = u] :
        u \in {<<>>, U_plain, U_templ, U_query, U_baddsn}}
    \cup {[EmptyConf EXCEPT !.connection_url = u, !.username = "u",
                            !.password = "p"] :
            u \in {U_plain, U_templ, U_half}}
    \cup {[EmptyConf EXCEPT !.connection_url = U_plain, !.username = "u"]}
    \cup {[EmptyConf EXCEPT !.connection_url = U_plain,
                            !.ints = {K_open, K_idle},
                            !.max_open_connections = o,
                            !.max_idle_connections = i] :
            o \in {0, 5, -1}, i \in {0, 10}}
    \cup {[EmptyConf EXCEPT !.connection_url = U_plain,
                            !.max_connection_lifetime = d] :
            d \in {"5s", "bogus"}}
    \cup {[EmptyConf EXCEPT !.connection_url = U_plain, !.decodeErr = TRUE]}
    \cup {EmptyConf}

\* the driver names registered with database/sql in the build
Drivers == {"postgres", "mysql", "sqlserver"}

\* the Type a plugin gives its producer
Types == {"postgres", "mssql", "nodriver"}

HandleIds == 1..MaxHandles

NoHandle == [st |-> "none", closes |-> 0, dbType |-> "", conn |-> <<>>,
             maxOpen |-> 0, maxIdle |-> 0, lifetime |-> 0]

NewProducer(type) ==
    [ConnectionURL |-> <<>>, MaxOpenConnections |-> 0, MaxIdleConnections |-> 0,
     MaxConnectionLifetimeRaw |-> "nil", Username |-> "", Password |-> "",
     Type |-> type, maxConnectionLifetime |-> 0, Initialized |-> FALSE, db |-> 0]

NoCall == [op |-> "none", err |-> "nil", ret |-> 0, opened |-> 0, hadDb |-> 0,
           pingOk |-> TRUE, wasInitialized |-> FALSE, validatedBefore |-> FALSE,
           succeededBefore |-> FALSE, conf |-> EmptyConf, verify |-> FALSE]

SQLInit ==
    /\ c \in {NewProducer(t) : t \in Types}
    /\ handles = [h \in HandleIds |-> NoHandle]
    /\ nextHandle = 1
    /\ last = NoCall
    /\ hist = [inits |-> 0, validated |-> FALSE, succeeded |-> FALSE]

\* the producer of the cache specification: it is never called
SQLUnused ==
    /\ c = NewProducer("postgres")
    /\ handles = [h \in HandleIds |-> NoHandle]
    /\ nextHandle = 1
    /\ last = NoCall
    /\ hist = [inits |-> 0, validated |-> FALSE, succeeded |-> FALSE]

\* mapstructure.WeakDecode(conf, c): a key the map holds sets its field, a
\* field whose key is absent keeps its value; a value that does not decode
\* leaves its field alone and makes the call return an error
WeakDecode(conf, cc) ==
    [cc EXCEPT
       !.ConnectionURL = IF conf.connection_url = AbsentURL THEN @
                         ELSE conf.connection_url,
       !.Username = IF conf.username = Absent THEN @ ELSE conf.username,
       !.Password = IF conf.password = Absent THEN @ ELSE conf.password,
       !.MaxOpenConnections =
            IF K_open \notin conf.ints \/ conf.decodeErr THEN @
            ELSE conf.max_open_connections,
       !.MaxIdleConnections = IF K_idle \notin conf.ints THEN @
                              ELSE conf.max_idle_connections,
       !.MaxConnectionLifetimeRaw =
            IF conf.max_connection_lifetime = Absent THEN @
            ELSE conf.max_connection_lifetime]

\* parseutil.ParseDurationSecond: a duration string or a number of seconds;
\* -1 stands for the parse error
ParseDurationSecond(raw) ==
    CASE raw = "0s" -> 0
      [] raw = "5s" -> 5
      [] OTHER -> -1

\* Initialize, lines 69-81: the pool defaults
PoolDefaults(cc) ==
    LET o == IF cc.MaxOpenConnections = 0 THEN 2 ELSE cc.MaxOpenConnections
        i0 == IF cc.MaxIdleConnections = 0 THEN o ELSE cc.MaxIdleConnections
        i == IF i0 > o THEN o ELSE i0
    IN  [cc EXCEPT !.MaxOpenConnections = o,
                   !.MaxIdleConnections = i,
                   !.MaxConnectionLifetimeRaw = IF @ = "nil" THEN "0s" ELSE @]

\* Connection, lines 129-136: timezone=utc is appended for postgres URLs
WithTimezone(conn) ==
    IF HasPrefix(conn, <<"postgres://">>) \/ HasPrefix(conn, <<"postgresql://">>)
    THEN IF Contains(conn, "?") THEN conn \o <<"&timezone=utc">>
         ELSE conn \o <<"?timezone=utc">>
    ELSE conn

\* sql.Open fails for a driver name that is not registered, and for a data
\* source name that the driver's OpenConnector rejects
OpenFails(dbType, conn) == dbType \notin Drivers \/ conn = U_baddsn

\* (*sql.DB).Close on a handle
HandleClosed(hs, h) == [hs EXCEPT ![h].st = "closed", ![h].closes = @ + 1]

\* the handle that failed its ping is left open
StaleHandleKept(hs, h) == hs

\* c.db.Close() after the unsuccessful ping
StaleHandleClosed(hs, h) == HandleClosed(hs, h)

\* the not-initialized check left out
InitializedUnchecked(cc) == TRUE

\* if !c.Initialized { return nil, ErrNotInitialized }
InitializedChecked(cc) == cc.Initialized

\* Connection(ctx) on producer cc with handles hs; pingOk is what
\* c.db.PingContext returns for an existing handle. The result: the
\* producer, the handles, the call's return values and the handle it opened.
ConnectionOf(cc, hs, nh, pingOk) ==
    IF ~InitializedChecked(cc)
    THEN [c |-> cc, handles |-> hs, ret |-> 0, err |-> "ErrNotInitialized",
          opened |-> 0]
    ELSE IF cc.db # 0 /\ pingOk
    THEN [c |-> cc, handles |-> hs, ret |-> cc.db, err |-> "nil", opened |-> 0]
    ELSE LET hs1 == IF cc.db # 0 THEN StaleHandleClosed(hs, cc.db) ELSE hs
             dbType == IF cc.Type = "mssql" THEN "sqlserver" ELSE cc.Type
             conn == WithTimezone(cc.ConnectionURL)
         IN  IF OpenFails(dbType, conn)
             THEN [c |-> [cc EXCEPT !.db = 0], handles |-> hs1, ret |-> 0,
                   err |-> "open", opened |-> 0]
             ELSE [c |-> [cc EXCEPT !.db = nh],
                   handles |-> [hs1 EXCEPT ![nh] =
                       [st |-> "open", closes |-> 0, dbType |-> dbType,
                        conn |-> conn,
                        maxOpen |-> cc.MaxOpenConnections,
                        maxIdle |-> cc.MaxIdleConnections,
                        lifetime |-> cc.maxConnectionLifetime]],
                   ret |-> nh, err |-> "nil", opened |-> nh]

\* the credentials are refused only when both placeholders are missing
BothPlaceholdersMissing(cc) ==
    /\ cc.Username # "" /\ cc.Password # ""
    /\ ~Contains(cc.ConnectionURL, T_username)
    /\ ~Contains(cc.ConnectionURL, T_password)

\* if len(c.Username) != 0 && len(c.Password) != 0 {
\*     if !strings.Contains(connURL, "{{username}}") ||
\*        !strings.Contains(connURL, "{{password}}") { return error }
MustBeTemplated(cc) ==
    /\ cc.Username # "" /\ cc.Password # ""
    /\ \/ ~Contains(cc.ConnectionURL, T_username)
       \/ ~Contains(cc.ConnectionURL, T_password)

\* Initialize(ctx, conf, verifyConnection) on producer cc. pingOk1 is the ping
\* inside Connection, pingOk2 the ping of the verification. The result: the
\* producer, the handles, the error, the handle opened, and whether the call
\* passed validation (reached c.Initialized = true).
InitializeOf(cc, hs, nh, conf, verifyConnection, pingOk1, pingOk2) ==
    LET c1 == WeakDecode(conf, cc)
        connURL == c1.ConnectionURL
        c2 == PoolDefaults(c1)
        d == ParseDurationSecond(c2.MaxConnectionLifetimeRaw)
        c3 == [c2 EXCEPT !.maxConnectionLifetime = IF d < 0 THEN 0 ELSE d]
        c4 == [c3 EXCEPT !.Initialized = TRUE]
        conn == ConnectionOf(c4, hs, nh, pingOk1)
        fail(cx, e) == [c |-> cx, handles |-> hs, err |-> e, opened |-> 0,
                        validated |-> FALSE]
    IN  IF conf.decodeErr THEN fail(c1, "decode")
        ELSE IF Len(connURL) = 0 THEN fail(c1, "connection_url cannot be empty")
        ELSE IF MustBeTemplated(c1)
        THEN fail(c1, "connection_url must be templated")
        ELSE IF d < 0 THEN fail(c3, "invalid max_connection_lifetime")
        ELSE IF ~verifyConnection
        THEN [c |-> c4, handles |-> hs, err |-> "nil", opened |-> 0,
              validated |-> TRUE]
        ELSE IF conn.err # "nil"
        THEN [c |-> conn.c, handles |-> conn.handles,
              err |-> "error verifying connection", opened |-> conn.opened,
              validated |-> TRUE]
        ELSE [c |-> conn.c, handles |-> conn.handles,
              err |-> IF pingOk2 THEN "nil" ELSE "error verifying connection",
              opened |-> conn.opened, validated |-> TRUE]

\* a closed handle that the producer no longer holds is garbage: only the
\* number of Close calls made on it is kept
Swept(hs, cc) ==
    [h \in HandleIds |->
        IF hs[h].st = "closed" /\ cc.db # h
        THEN [NoHandle EXCEPT !.st = "closed", !.closes = hs[h].closes]
        ELSE hs[h]]

CallRecord(op, r, ret, pingOk) ==
    [op |-> op, err |-> r.err, ret |-> ret, opened |-> r.opened, hadDb |-> c.db,
     pingOk |-> pingOk, wasInitialized |-> c.Initialized,
     validatedBefore |-> hist.validated, succeededBefore |-> hist.succeeded,
     conf |-> EmptyConf, verify |-> FALSE]

\* c.Lock(); defer c.Unlock(); the whole of Initialize
Initialize ==
    /\ nextHandle <= MaxHandles
    /\ hist.inits < MaxInits
    /\ \E conf \in Confs, verifyConnection, pingOk1, pingOk2 \in BOOLEAN :
         \* a ping that the call cannot reach is not enumerated twice
         /\ (verifyConnection /\ c.db # 0) \/ pingOk1
         /\ verifyConnection \/ pingOk2
         /\ LET r == InitializeOf(c, handles, nextHandle, conf, verifyConnection,
                               pingOk1, pingOk2)
            IN  /\ c' = r.c
                /\ handles' = Swept(r.handles, r.c)
                /\ nextHandle' = IF r.opened # 0 THEN nextHandle + 1
                                 ELSE nextHandle
                /\ last' = [CallRecord("Initialize", r, 0, pingOk1)
                               EXCEPT !.conf = conf, !.verify = verifyConnection]
                /\ hist' = [inits |-> hist.inits + 1,
                            validated |-> hist.validated \/ r.validated,
                            succeeded |-> hist.succeeded \/ r.err = "nil"]
    /\ UNCHANGED <<cacheVars, adVars, fnVars>>

\* a call of Connection by the producer's user
Connection ==
    /\ nextHandle <= MaxHandles
    /\ \E pingOk \in BOOLEAN :
         /\ c.db # 0 \/ pingOk
         /\ LET r == ConnectionOf(c, handles, nextHandle, pingOk)
            IN  /\ c' = r.c
                /\ handles' = Swept(r.handles, r.c)
                /\ nextHandle' = IF r.opened # 0 THEN nextHandle + 1
                                 ELSE nextHandle
                /\ last' = CallRecord("Connection", r, r.ret, pingOk)
                /\ hist' = hist
    /\ UNCHANGED <<cacheVars, adVars, fnVars>>

\* Close: c.Lock(); if c.db != nil { c.db.Close() }; c.db = nil; return nil
Close ==
    /\ c' = [c EXCEPT !.db = 0]
    /\ handles' = Swept(IF c.db # 0 THEN HandleClosed(handles, c.db) ELSE handles,
                        c')
    /\ last' = [CallRecord("Close", [err |-> "nil", opened |-> 0], 0, TRUE)
                  EXCEPT !.hadDb = c.db]
    /\ UNCHANGED <<nextHandle, hist>>
    /\ UNCHANGED <<cacheVars, adVars, fnVars>>


\* ======================================================== directory client
\* The configured server list is a sequence of tokens: URLs and commas.
comma == ","
L_ldap == "ldap://dc1"
L_ldaps == "ldaps://dc2"
L_http == "http://dc3"
L_bad == "%zz"

UrlTokens == {L_ldap, L_ldaps, L_http, L_bad}

\* url.Parse and net.SplitHostPort on the URLs of the model: none has a port
ParseUrl(uut) ==
    CASE uut = L_ldap -> [err |-> "nil", Scheme |-> "ldap", host |-> "dc1", port |-> ""]
      [] uut = L_ldaps -> [err |-> "nil", Scheme |-> "ldaps", host |-> "dc2", port |-> ""]
      [] uut = L_http -> [err |-> "nil", Scheme |-> "http", host |-> "dc3", port |-> ""]
      [] OTHER -> [err |-> "parse", Scheme |-> "", host |-> "", port |-> ""]

\* the server lists of 1..n URLs, comma-separated
RECURSIVE UrlLists(_)
UrlLists(n) ==
    IF n = 1 THEN {<<u>> : u \in UrlTokens}
    ELSE UrlLists(n - 1)
            \cup {l \o <<comma, u>> : l \in UrlLists(n - 1), u \in UrlTokens}

\* strings.Split(s, ","): the pieces between the commas
RECURSIVE Split(_)
Split(s) ==
    IF s = <<>> THEN <<>>
    ELSE IF Head(s) = comma THEN Split(Tail(s))
    ELSE <<Head(s)>> \o Split(Tail(s))

\* tlsutil.TLSLookup: the version identifiers and their protocol versions
TLSVersions == {"tls10", "tls11", "tls12"}

TLSLookup(v) ==
    CASE v = "tls10" -> 769
      [] v = "tls11" -> 770
      [] v = "tls12" -> 771
      [] OTHER -> 0

\* getTLSConfig: fails for a version identifier that is not in the table
GetTLSConfigFails(conf) ==
    \/ conf.TLSMinVersion # "" /\ conf.TLSMinVersion \notin TLSVersions
    \/ conf.TLSMaxVersion # "" /\ conf.TLSMaxVersion \notin TLSVersions

ADConfs ==
    [Url : UrlLists(MaxUrls), StartTLS : BOOLEAN,
     TLSMinVersion : {"tls12", "bogus"}, TLSMaxVersion : {"tls12"}]

\* connect(uut): dialOk is what ldap.Dial / ldap.DialTLS returns, upgradeOk
\* what conn.StartTLS returns. The result: the error, whether a transport
\* connection was dialed, its address, and whether it is handed to the caller.
ConnectOf(uut, conf, dialOk, upgradeOk) ==
    LET u == ParseUrl(uut)
        none == [err |-> "nil", dialed |-> FALSE, host |-> u.host, port |-> "",
                 returned |-> FALSE]
    IN  IF u.err # "nil" THEN [none EXCEPT !.err = "parse"]
        ELSE IF u.Scheme = "ldap"
        THEN LET port == IF u.port = "" THEN "389" ELSE u.port
                 up == [none EXCEPT !.port = port, !.dialed = TRUE]
             IN  IF ~dialOk THEN [none EXCEPT !.err = "dial", !.port = port]
                 ELSE IF ~conf.StartTLS THEN [up EXCEPT !.returned = TRUE]
                 ELSE IF GetTLSConfigFails(conf) THEN [up EXCEPT !.err = "tlsconfig"]
                 ELSE IF ~upgradeOk THEN [up EXCEPT !.err = "starttls"]
                 ELSE [up EXCEPT !.returned = TRUE]
        ELSE IF u.Scheme = "ldaps"
        THEN LET port == IF u.port = "" THEN "636" ELSE u.port
             IN  IF GetTLSConfigFails(conf)
                 THEN [none EXCEPT !.err = "tlsconfig", !.port = port]
                 ELSE IF ~dialOk THEN [none EXCEPT !.err = "dial", !.port = port]
                 ELSE [none EXCEPT !.port = port, !.dialed = TRUE,
                                   !.returned = TRUE]
        ELSE [none EXCEPT !.err = "invalid LDAP scheme"]

\* the passwords and names handed to the client: sequences of code points
Quote == 34
Passwords == {<<97>>, <<233, 8364>>, <<128512, 34>>}
Usernames == {<<98>>, <<99, 100>>}

\* unicode.UTF16(LittleEndian, IgnoreBOM).NewEncoder().String: the bytes of
\* one code point, a surrogate pair above the basic plane
UTF16LE(cp) ==
    IF cp < 65536 THEN <<cp % 256, cp \div 256>>
    ELSE LET v == cp - 65536
             hi == 55296 + (v \div 1024)
             lo == 56320 + (v % 1024)
         IN  <<hi % 256, hi \div 256, lo % 256, lo \div 256>>

RECURSIVE EncodeUTF16LE(_)
EncodeUTF16LE(str) ==
    IF str = <<>> THEN <<>>
    ELSE UTF16LE(Head(str)) \o EncodeUTF16LE(Tail(str))

\* utf16.NewEncoder().String("\"" + newPassword + "\"")
PwdEncoded(newPassword) == EncodeUTF16LE(<<Quote>> \o newPassword \o <<Quote>>)

\* the entries a search may return
SearchResults == {<<>>, <<"cn=a">>, <<"cn=a", "cn=b">>}

\* a modify goes out whenever the search matched something
AtLeastOneMatch(entries) == Len(entries) >= 1

\* if len(entries) != 1 { return error }
SingleMatch(entries) == Len(entries) = 1

\* the hosts are tried from the last to the first
UrlAtReversed(urls, k) == urls[Len(urls) + 1 - k]

\* for _, uut := range urls: the URL of the k-th iteration
UrlAt(urls, k) == urls[k]

ADOps == {"Search", "UpdatePassword", "UpdateUsername"}

ADIdle ==
    [pc |-> "idle", op |-> "none", arg |-> <<>>, phase |-> "none", k |-> 0,
     tried |-> <<>>, errs |-> <<>>, conns |-> <<>>, conn |-> 0,
     entries |-> <<>>, found |-> FALSE, sent |-> <<>>, ret |-> "nil"]

ADInit ==
    /\ adConf \in ADConfs
    /\ ad = ADIdle

\* the directory client of the other specifications: never called
ADUnused ==
    /\ adConf = [Url |-> <<L_ldap>>, StartTLS |-> FALSE,
                 TLSMinVersion |-> "tls12", TLSMaxVersion |-> "tls12"]
    /\ ad = ADIdle

\* a client call starts: Search, or the Search that the updates start with
AD_Call ==
    /\ ad.pc = "idle"
    /\ \E op \in ADOps :
         \E arg \in (IF op = "UpdatePassword" THEN Passwords
                     ELSE IF op = "UpdateUsername" THEN Usernames ELSE {<<>>}) :
            ad' = [ADIdle EXCEPT !.pc = "connect", !.op = op, !.arg = arg,
                                 !.phase = "search", !.k = 1]
    /\ UNCHANGED adConf
    /\ UNCHANGED <<cacheVars, sqlVars, fnVars>>

\* getConnection: one iteration of the loop over the URLs. After the last
\* URL has failed, getConnection returns the collected errors and the call
\* returns them.
AD_Connect ==
    /\ ad.pc = "connect"
    /\ \E dialOk, upgradeOk \in BOOLEAN :
         LET urls == Split(adConf.Url)
             uut == UrlAt(urls, ad.k)
             r == ConnectOf(uut, adConf, dialOk, upgradeOk)
             conns == IF r.dialed
                      THEN Append(ad.conns, [uut |-> uut, host |-> r.host,
                                             port |-> r.port, open |-> TRUE,
                                             closes |-> 0])
                      ELSE ad.conns
             a == [ad EXCEPT !.tried = Append(@, uut), !.conns = conns]
         IN  IF r.err # "nil"
             THEN IF ad.k < Len(urls)
                  THEN ad' = [a EXCEPT !.errs = Append(@, uut), !.k = @ + 1]
                  ELSE ad' = [a EXCEPT !.errs = Append(@, uut), !.pc = "done",
                                       !.ret = "connect"]
             ELSE ad' = [a EXCEPT !.conn = Len(conns), !.pc = ad.phase]
    /\ UNCHANGED adConf
    /\ UNCHANGED <<cacheVars, sqlVars, fnVars>>

\* conn.Close() on the call's connection
ADClosed(conns, i) == [conns EXCEPT ![i].open = FALSE, ![i].closes = @ + 1]

\* Search: conn.Search(req), the deferred conn.Close(); then, in an update,
\* the single-match test
AD_Search ==
    /\ ad.pc = "search"
    /\ \E ok \in BOOLEAN, entries \in SearchResults :
         /\ ok \/ entries = <<>>
         /\ LET a == [ad EXCEPT !.conns = ADClosed(@, ad.conn), !.conn = 0,
                                !.entries = IF ok THEN entries ELSE <<>>,
                                !.found = ok]
            IN  IF ~ok THEN ad' = [a EXCEPT !.pc = "done", !.ret = "search"]
                ELSE IF ad.op = "Search" THEN ad' = [a EXCEPT !.pc = "done"]
                ELSE IF ~SingleMatch(entries)
                THEN ad' = [a EXCEPT !.pc = "done",
                                     !.ret = "doesn't match just one entry"]
                ELSE ad' = [a EXCEPT !.pc = "connect", !.phase = "modify",
                                     !.k = 1, !.tried = <<>>, !.errs = <<>>]
    /\ UNCHANGED adConf
    /\ UNCHANGED <<cacheVars, sqlVars, fnVars>>

\* the ModifyRequest of the update
ModifyRequestOf(op, dn, arg) ==
    IF op = "UpdatePassword"
    THEN [DN |-> dn, attr |-> "unicodePwd", vals |-> <<PwdEncoded(arg)>>]
    ELSE [DN |-> dn, attr |-> "givenName", vals |-> <<arg>>]

\* defer conn.Close(); return conn.Modify(req)
AD_Modify ==
    /\ ad.pc = "modify"
    /\ \E ok \in BOOLEAN :
         ad' = [ad EXCEPT
                  !.sent = Append(@, [to |-> ad.conns[ad.conn].host,
                                      req |-> ModifyRequestOf(ad.op, ad.entries[1],
                                                              ad.arg)]),
                  !.conns = ADClosed(@, ad.conn), !.conn = 0,
                  !.pc = "done",
                  !.ret = IF ok THEN "nil" ELSE "modify"]
    /\ UNCHANGED adConf
    /\ UNCHANGED <<cacheVars, sqlVars, fnVars>>

\* the call has returned
AD_Return ==
    /\ ad.pc = "done"
    /\ ad' = ADIdle
    /\ UNCHANGED adConf
    /\ UNCHANGED <<cacheVars, sqlVars, fnVars>>

\* ------------------------------------------- ldap.NewConfiguration (config.go)
\* the bytes of the strings the field data can hold for a TLS version
Bytes(v) ==
    CASE v = "tls10" -> <<116, 108, 115, 49, 48>>
      [] v = "tls11" -> <<116, 108, 115, 49, 49>>
      [] v = "tls12" -> <<116, 108, 115, 49, 50>>
      [] v = "TLS12" -> <<84, 76, 83, 49, 50>>
      [] v = "tls9"  -> <<116, 108, 115, 57>>
      [] OTHER       -> <<>>

\* Go's a < b on strings: bytewise, a proper prefix is the smaller one
RECURSIVE StrLess(_, _)
StrLess(a, b) ==
    IF b = <<>> THEN FALSE
    ELSE IF a = <<>> THEN TRUE
    ELSE IF Head(a) # Head(b) THEN Head(a) < Head(b)
    ELSE StrLess(Tail(a), Tail(b))

\* the values fieldData.Get returns for tls_min_version and tls_max_version
VersionInputs == {"", "tls10", "tls11", "tls12", "TLS12", "tls9"}

\* the certificate and groupfilter field values: absent, well-formed, malformed
TextInputs == {"", "ok", "bad"}

FieldData ==
    [tls_min_version : VersionInputs, tls_max_version : VersionInputs,
     certificate : TextInputs, groupfilter : TextInputs, starttls : BOOLEAN]

NoFieldData ==
    [tls_min_version |-> "", tls_max_version |-> "", certificate |-> "",
     groupfilter |-> "", starttls |-> FALSE]

\* conf := &Configuration{}
EmptyConfiguration ==
    [GroupFilter |-> "", Certificate |-> "", TLSMinVersion |-> "",
     TLSMaxVersion |-> "", StartTLS |-> FALSE]

\* never rejects on the order of the two versions
VersionBelowNever(max, min) == FALSE

\* conf.TLSMaxVersion < conf.TLSMinVersion
VersionBelow(max, min) == StrLess(Bytes(max), Bytes(min))

\* NewConfiguration: the error it returns ("nil": none) and the configuration
NewConfigurationOf(fd) ==
    LET c0 == EmptyConfiguration
        c1 == [c0 EXCEPT !.GroupFilter = fd.groupfilter]
        c2 == [c1 EXCEPT !.Certificate = fd.certificate]
        c3 == [c2 EXCEPT !.TLSMinVersion = fd.tls_min_version]
        c4 == [c3 EXCEPT !.TLSMaxVersion = fd.tls_max_version]
        c5 == [c4 EXCEPT !.StartTLS = fd.starttls]
        fail(e) == [err |-> e, conf |-> EmptyConfiguration, ok |-> FALSE]
    IN  IF fd.groupfilter = "bad" THEN fail("invalid groupfilter")
        ELSE IF fd.certificate = "bad" THEN fail("failed to decode PEM block")
        ELSE IF c3.TLSMinVersion = "" THEN fail("failed to get 'tls_min_version'")
        ELSE IF c3.TLSMinVersion \notin TLSVersions
             THEN fail("invalid 'tls_min_version'")
        ELSE IF c4.TLSMaxVersion = "" THEN fail("failed to get 'tls_max_version'")
        ELSE IF c4.TLSMaxVersion \notin TLSVersions
             THEN fail("invalid 'tls_max_version'")
        ELSE IF VersionBelow(c4.TLSMaxVersion, c4.TLSMinVersion)
             THEN fail("'tls_max_version' must be greater than or equal")
        ELSE [err |-> "nil", conf |-> c5, ok |-> TRUE]

LdapIdle == [pc |-> "unused", fieldData |-> NoFieldData,
             ret |-> [err |-> "nil", conf |-> EmptyConfiguration, ok |-> FALSE]]

LdapUnused == ldapCfg = LdapIdle

LdapInit == \E fd \in FieldData : ldapCfg = [LdapIdle EXCEPT !.pc = "call", !.fieldData = fd]

NewConfiguration ==
    /\ ldapCfg.pc = "call"
    /\ ldapCfg' = [ldapCfg EXCEPT !.pc = "done",
                                  !.ret = NewConfigurationOf(ldapCfg.fieldData)]
    /\ UNCHANGED <<roleCall, sp>>
    /\ UNCHANGED <<cacheVars, sqlVars, adVars>>

\* ----------------------------------------------------------- Role (backend.go)
\* the JSON keys of a stored role record: the misspelled ones of
\* upgradeCheck / upgradeStatements and the ones of roleEntry
K_statments == "statments"
K_statements == "statements"
K_creation_statments == "creation_statments"
K_creation == "creation_statements"
K_revocation == "revocation_statements"
K_rollback == "rollback_statements"
K_renew == "renew_statements"

\* json.Unmarshal of a string field: the key's value, or the zero value
Field(obj, key) == IF key \in DOMAIN obj THEN obj[key] ELSE ""

\* json.Unmarshal of a struct field: the key's object, or no keys at all
Object(obj, key) == IF key \in DOMAIN obj THEN obj[key] ELSE <<>>

\* the zero value of upgradeStatements and of the statements of a roleEntry
NoStatements ==
    [CreationStatements |-> "", RevocationStatements |-> "",
     RollbackStatements |-> "", RenewStatements |-> ""]

\* statement texts, "" being the zero value
StatementTexts == {"", "create", "revoke"}

StatementSets ==
    [CreationStatements : StatementTexts, RevocationStatements : StatementTexts,
     RollbackStatements : StatementTexts, RenewStatements : StatementTexts]

\* entry.DecodeJSON(&upgradeCh)
DecodeUpgradeCheck(json) ==
    LET o == Object(json, K_statments)
    IN  [CreationStatements   |-> Field(o, K_creation_statments),
         RevocationStatements |-> Field(o, K_revocation),
         RollbackStatements   |-> Field(o, K_rollback),
         RenewStatements      |-> Field(o, K_renew)]

\* entry.DecodeJSON(&result): the Statements of the roleEntry
DecodeRoleEntry(json) ==
    LET o == Object(json, K_statements)
    IN  [CreationStatements   |-> Field(o, K_creation),
         RevocationStatements |-> Field(o, K_revocation),
         RollbackStatements   |-> Field(o, K_rollback),
         RenewStatements      |-> Field(o, K_renew)]

\* keeps the canonical view whatever the legacy view holds
LegacyIgnored(upgradeCh, result) == result

\* if upgradeCh != empty { result.Statements.X = upgradeCh.Statements.X ... }
LegacyOverrides(upgradeCh, result) ==
    IF upgradeCh # NoStatements THEN upgradeCh ELSE result

\* a record that carries S under the keys of upgradeCheck
LegacyRecord(S) ==
    (K_statments :>
        (K_creation_statments :> S.CreationStatements
         @@ K_revocation :> S.RevocationStatements
         @@ K_rollback :> S.RollbackStatements
         @@ K_renew :> S.RenewStatements))

\* a record that carries S under the keys of roleEntry
CanonicalRecord(S) ==
    (K_statements :>
        (K_creation :> S.CreationStatements
         @@ K_revocation :> S.RevocationStatements
         @@ K_rollback :> S.RollbackStatements
         @@ K_renew :> S.RenewStatements))

\* the statement sets of the records that carry both shapes
MixedSets ==
    {S \in StatementSets : S.RollbackStatements = "" /\ S.RenewStatements \in {"", "revoke"}}

\* what s.Get returns: an error, no entry, an entry that is not JSON, a record
StoredEntries ==
    {[kind |-> k, json |-> <<>>] : k \in {"error", "absent", "malformed"}}
    \cup {[kind |-> "json", json |-> LegacyRecord(S)] : S \in StatementSets}
    \cup {[kind |-> "json", json |-> CanonicalRecord(S)] : S \in StatementSets}
    \cup {[kind |-> "json", json |-> LegacyRecord(S1) @@ CanonicalRecord(S2)] :
             S1 \in MixedSets, S2 \in MixedSets}

\* Role: the error ("nil": none), whether a roleEntry is returned, and its
\* Statements
RoleOf(entry) ==
    LET none(e) == [err |-> e, found |-> FALSE, Statements |-> NoStatements,
                    upgradeCh |-> NoStatements]
    IN  IF entry.kind = "error" THEN none("storage")
        ELSE IF entry.kind = "absent" THEN none("nil")
        ELSE IF entry.kind = "malformed" THEN none("decode")
        ELSE LET upgradeCh == DecodeUpgradeCheck(entry.json)
                 result == DecodeRoleEntry(entry.json)
             IN  [err |-> "nil", found |-> TRUE,
                  Statements |-> LegacyOverrides(upgradeCh, result),
                  upgradeCh |-> upgradeCh]

RoleIdle == [pc |-> "unused", entry |-> [kind |-> "absent", json |-> <<>>],
             ret |-> RoleOf([kind |-> "absent", json |-> <<>>])]

RoleUnused == roleCall = RoleIdle

RoleInit ==
    \E e \in StoredEntries : roleCall = [RoleIdle EXCEPT !.pc = "call", !.entry = e]

Role ==
    /\ roleCall.pc = "call"
    /\ roleCall' = [roleCall EXCEPT !.pc = "done", !.ret = RoleOf(roleCall.entry)]
    /\ UNCHANGED <<ldapCfg, sp>>
    /\ UNCHANGED <<cacheVars, sqlVars, adVars>>

\* ------------------------------------- concurrent callers of one SQL producer
\* Connection takes no lock and Close holds c.Lock(): each read and each
\* write of c.db is a step of its own, and the steps of concurrent calls
\* interleave.
SPIdle ==
    [mu |-> 0, panicked |-> FALSE,
     g |-> [p \in Procs |-> [pc |-> "idle", ret |-> 0, err |-> "nil"]]]

SPUnused == sp = SPIdle

\* an initialized producer, with or without a pooled handle
SPInit ==
    /\ sp = SPIdle
    /\ \E t \in Types, hasDb \in BOOLEAN :
         \* a handle was opened only if the driver exists
         /\ hasDb => t # "nodriver"
         /\ c = [NewProducer(t) EXCEPT !.ConnectionURL = U_plain,
                                       !.MaxOpenConnections = 2,
                                       !.MaxIdleConnections = 2,
                                       !.Initialized = TRUE,
                                       !.db = IF hasDb THEN 1 ELSE 0]
         /\ handles = [h \in HandleIds |->
                IF hasDb /\ h = 1
                THEN [NoHandle EXCEPT !.st = "open",
                         !.dbType = IF t = "mssql" THEN "sqlserver" ELSE t,
                         !.conn = WithTimezone(U_plain),
                         !.maxOpen = 2, !.maxIdle = 2]
                ELSE NoHandle]
         /\ nextHandle = IF hasDb THEN 2 ELSE 1
    /\ last = NoCall
    /\ hist = [inits |-> 0, validated |-> FALSE, succeeded |-> FALSE]

SPAt(p, at) == ~sp.panicked /\ sp.g[p].pc = at

SPGoto(p, to) == sp' = [sp EXCEPT !.g[p].pc = to]

SPRest == UNCHANGED <<last, hist, ldapCfg, roleCall>> /\ UNCHANGED <<cacheVars, adVars>>

\* a method call on a nil *sql.DB: the goroutine panics
SPPanic(p) == sp' = [sp EXCEPT !.panicked = TRUE, !.g[p].pc = "panic"]

\* a goroutine calls Connection: if !c.Initialized
SP_CallConnection(p) ==
    /\ SPAt(p, "idle")
    /\ sp' = [sp EXCEPT !.g[p] = [pc |-> IF c.Initialized THEN "CN_Test" ELSE "done",
                                 ret |-> 0,
                                 err |-> IF c.Initialized THEN "nil"
                                         ELSE "ErrNotInitialized"]]
    /\ UNCHANGED <<c, handles, nextHandle>>
    /\ SPRest

\* if c.db != nil
SP_Test(p) ==
    /\ SPAt(p, "CN_Test")
    /\ SPGoto(p, IF c.db # 0 THEN "CN_Ping" ELSE "CN_Open")
    /\ UNCHANGED <<c, handles, nextHandle>>
    /\ SPRest

\* c.db.PingContext(ctx): a closed handle fails its ping
SP_Ping(p) ==
    /\ SPAt(p, "CN_Ping")
    /\ IF c.db = 0 THEN SPPanic(p)
       ELSE \E pingOk \in BOOLEAN :
              /\ pingOk => handles[c.db].st = "open"
              /\ SPGoto(p, IF pingOk THEN "CN_RetDb" ELSE "CN_CloseStale")
    /\ UNCHANGED <<c, handles, nextHandle>>
    /\ SPRest

\* return c.db, nil
SP_RetDb(p) ==
    /\ SPAt(p, "CN_RetDb")
    /\ sp' = [sp EXCEPT !.g[p].pc = "done", !.g[p].ret = c.db]
    /\ UNCHANGED <<c, handles, nextHandle>>
    /\ SPRest

\* c.db.Close() after the unsuccessful ping
SP_CloseStale(p) ==
    /\ SPAt(p, "CN_CloseStale")
    /\ IF c.db = 0 THEN SPPanic(p) /\ UNCHANGED handles
       ELSE SPGoto(p, "CN_Open") /\ handles' = StaleHandleClosed(handles, c.db)
    /\ UNCHANGED <<c, nextHandle>>
    /\ SPRest

\* c.db, err = sql.Open(dbType, conn)
SP_Open(p) ==
    /\ SPAt(p, "CN_Open")
    /\ nextHandle <= MaxHandles
    /\ LET dbType == IF c.Type = "mssql" THEN "sqlserver" ELSE c.Type
           conn == WithTimezone(c.ConnectionURL)
       IN  IF ~OpenFails(dbType, conn)
                THEN /\ c' = [c EXCEPT !.db = nextHandle]
                     /\ handles' = [handles EXCEPT ![nextHandle] =
                            [st |-> "open", closes |-> 0, dbType |-> dbType,
                             conn |-> conn, maxOpen |-> 0, maxIdle |-> 0,
                             lifetime |-> 0]]
                     /\ nextHandle' = nextHandle + 1
                     /\ SPGoto(p, "CN_Pool")
                ELSE /\ c' = [c EXCEPT !.db = 0]
                     /\ sp' = [sp EXCEPT !.g[p].pc = "done", !.g[p].err = "open"]
                     /\ UNCHANGED <<handles, nextHandle>>
    /\ SPRest

\* c.db.SetMaxOpenConns ... ; return c.db, nil
SP_Pool(p) ==
    /\ SPAt(p, "CN_Pool")
    /\ IF c.db = 0 THEN SPPanic(p) /\ UNCHANGED handles
       ELSE /\ handles' = [handles EXCEPT
                              ![c.db].maxOpen = c.MaxOpenConnections,
                              ![c.db].maxIdle = c.MaxIdleConnections,
                              ![c.db].lifetime = c.maxConnectionLifetime]
            /\ sp' = [sp EXCEPT !.g[p].pc = "done", !.g[p].ret = c.db]
    /\ UNCHANGED <<c, nextHandle>>
    /\ SPRest

\* a goroutine calls Close: c.Lock()
SP_Lock(p) ==
    /\ SPAt(p, "idle")
    /\ sp.mu = 0
    /\ sp' = [sp EXCEPT !.mu = p,
                        !.g[p] = [pc |-> "CL_Test", ret |-> 0, err |-> "nil"]]
    /\ UNCHANGED <<c, handles, nextHandle>>
    /\ SPRest

\* if c.db != nil
SP_CloseTest(p) ==
    /\ SPAt(p, "CL_Test")
    /\ SPGoto(p, IF c.db # 0 THEN "CL_Close" ELSE "CL_Nil")
    /\ UNCHANGED <<c, handles, nextHandle>>
    /\ SPRest

\* c.db.Close()
SP_CloseDb(p) ==
    /\ SPAt(p, "CL_Close")
    /\ IF c.db = 0 THEN SPPanic(p) /\ UNCHANGED handles
       ELSE SPGoto(p, "CL_Nil") /\ handles' = HandleClosed(handles, c.db)
    /\ UNCHANGED <<c, nextHandle>>
    /\ SPRest

\* c.db = nil; return nil; the deferred c.Unlock()
SP_Nil(p) ==
    /\ SPAt(p, "CL_Nil")
    /\ c' = [c EXCEPT !.db = 0]
    /\ sp' = [sp EXCEPT !.mu = 0, !.g[p].pc = "done"]
    /\ UNCHANGED <<handles, nextHandle>>
    /\ SPRest

\* the caller has the call's results and may call again
SP_Return(p) ==
    /\ SPAt(p, "done")
    /\ sp' = [sp EXCEPT !.g[p] = [pc |-> "idle", ret |-> 0, err |-> "nil"]]
    /\ UNCHANGED <<c, handles, nextHandle>>
    /\ SPRest

\* Connection, step by step
ConnectionSteps(p) ==
    \/ SP_CallConnection(p)
    \/ SP_Test(p)
    \/ SP_Ping(p)
    \/ SP_RetDb(p)
    \/ SP_CloseStale(p)
    \/ SP_Open(p)
    \/ SP_Pool(p)

\* Close, step by step
CloseSteps(p) ==
    \/ SP_Lock(p)
    \/ SP_CloseTest(p)
    \/ SP_CloseDb(p)
    \/ SP_Nil(p)

FnUnused == LdapUnused /\ RoleUnused /\ SPUnused

\* ------------------------------------------------------------ specification
Next ==
    \/ \E p \in Procs : GetConnection(p)
    \/ \E p \in Procs : ClearConnection(p)
    \/ \E p \in Procs : CloseIfShutdown(p)
    \/ \E p \in Procs : invalidate(p)
    \/ \E p \in Procs : closeAllDBs(p)
    \/ \E p \in Procs : periodicFunc(p)
    \/ \E p \in Procs : Ret(p)
    \/ Fatal

\* the cache, driven by NumProcs goroutines
Init == CacheInit /\ SQLUnused /\ ADUnused /\ FnUnused

Spec == Init /\ [][Next]_vars

\* one SQL producer, called by one caller at a time
InitSQL == CacheInit /\ SQLInit /\ ADUnused /\ FnUnused

NextSQL ==
    \/ Initialize
    \/ Connection
    \/ Close

SpecSQL == InitSQL /\ [][NextSQL]_vars

\* one directory client, called by one caller at a time
InitAD == CacheInit /\ SQLUnused /\ ADInit /\ FnUnused

NextAD ==
    \/ AD_Call
    \/ AD_Connect
    \/ AD_Search
    \/ AD_Modify
    \/ AD_Return

SpecAD == InitAD /\ [][NextAD]_vars

\* one call of ldap.NewConfiguration on every field data
InitLdap == CacheInit /\ SQLUnused /\ ADUnused /\ LdapInit /\ RoleUnused /\ SPUnused

NextLdap == NewConfiguration

SpecLdap == InitLdap /\ [][NextLdap]_vars

\* one call of Role on every stored entry
InitRole == CacheInit /\ SQLUnused /\ ADUnused /\ LdapUnused /\ RoleInit /\ SPUnused

NextRole == Role

SpecRole == InitRole /\ [][NextRole]_vars

\* one initialized SQL producer, called by NumProcs goroutines
InitSP == CacheInit /\ SPInit /\ ADUnused /\ LdapUnused /\ RoleUnused

NextSP ==
    \/ \E p \in Procs : ConnectionSteps(p)
    \/ \E p \in Procs : CloseSteps(p)
    \/ \E p \in Procs : SP_Return(p)

SpecSP == InitSP /\ [][NextSP]_vars

\* ============================================================== properties
\* the GetConnection calls that are about to return
Returning(p) == pc[p] = "GC_Ret" /\ loc[p].op = "GetConnection"

\* C1: While GetConnection calls for one name run concurrently and one of
\* them has returned an instance, every other one returns that same instance
\* without error and constructs nothing of its own; the instance was
\* constructed for that name and initialized exactly once.
C1_SingleConstruction ==
    \A p \in Procs :
        (Returning(p) /\ loc[p].peer.inst # NoDB) =>
            /\ loc[p].retErr = "nil"
            /\ loc[p].retDb = loc[p].peer.inst
            /\ ~loc[p].built /\ ~loc[p].loaded
            /\ insts[loc[p].retDb].made
            /\ insts[loc[p].retDb].name = loc[p].name
            /\ insts[loc[p].retDb].inits = 1

\* a call that found the name uncached under the shared lock, waited for the
\* exclusive lock while a concurrent call constructed, and returns its instance
C1_Witness ==
    \E p \in Procs :
        /\ Returning(p) /\ loc[p].miss1 /\ loc[p].hit2
        /\ loc[p].peer.inst # NoDB /\ loc[p].peer.built /\ loc[p].peer.miss1
        /\ loc[p].retDb = loc[p].peer.inst

\* C2: A GetConnection that returns an error returns no instance and leaves
\* no entry for the name; an instance whose Initialize failed has been closed
\* once, is in no map entry and is returned by no call; and the GetConnection
\* that follows on the same name loads the configuration and, unless the load
\* or the factory fails, constructs and initializes an instance of its own.
C2_FailureNotCached ==
    /\ \A p \in Procs :
         (Returning(p) /\ loc[p].retErr # "nil") =>
            /\ loc[p].retDb = NoDB
            /\ connections[loc[p].name] = NoDB
            /\ loc[p].built => /\ insts[loc[p].db].closes = 1
                               /\ ~insts[loc[p].db].ok
    /\ \A i \in InstIds :
         (insts[i].inits > 0 /\ ~insts[i].ok) =>
            /\ insts[i].closes = 1
            /\ i \notin CachedInsts
            /\ \A p \in Procs : loc[p].retDb # i
            /\ lastOp.op = "GetConnection" => lastOp.inst # i
    /\ (lastOp.op = "GetConnection" /\ lastOp.err # "nil") =>
            connections[lastOp.name] = NoDB
    /\ \A p \in Procs :
         (Returning(p) /\ loc[p].prev.op = "GetConnection"
                       /\ loc[p].prev.err # "nil") =>
            /\ loc[p].miss1 /\ ~loc[p].hit2 /\ loc[p].loaded
            /\ loc[p].built \/ loc[p].retErr \in {"config", "factory"}
            /\ loc[p].built => insts[loc[p].db].inits = 1

\* a GetConnection that follows one whose Initialize failed, and builds anew
C2_Witness ==
    \E p \in Procs :
        /\ Returning(p) /\ loc[p].prev.op = "GetConnection"
        /\ loc[p].prev.err = "init"
        /\ loc[p].built /\ loc[p].retErr = "nil"

\* the ClearConnection calls that are about to return
Clearing(p) == pc[p] = "CC_Ret" /\ loc[p].op = "ClearConnection"

\* C3: ClearConnection on a cached name calls Close on the cached instance
\* exactly once; the entry is removed iff that Close returned no error; after
\* a Close error the entry is unchanged and the error is returned. On a name
\* that is not cached it calls no Close, changes nothing and returns nil. The
\* other entries are left alone in every case.
C3_ClearConnection ==
    \A p \in Procs :
        Clearing(p) =>
            LET l == loc[p]
            IN  IF l.db = NoDB
                THEN /\ l.closed = <<>>
                     /\ l.retErr = "nil"
                     /\ connections[l.name] = NoDB
                     /\ CachedInsts = l.pre
                ELSE /\ Len(l.closed) = 1
                     /\ l.closed[1][1] = l.db
                     /\ l.db \in l.pre
                     /\ l.closed[1][2] <=> connections[l.name] = NoDB
                     /\ l.closed[1][2] <=> l.retErr = "nil"
                     /\ l.closed[1][2] => CachedInsts = l.pre \ {l.db}
                     /\ ~l.closed[1][2] => /\ connections[l.name] = l.db
                                           /\ CachedInsts = l.pre
                                           /\ l.retErr = "close"

\* a ClearConnection whose Close returned an error
C3_Witness ==
    \E p \in Procs :
        /\ Clearing(p) /\ loc[p].db # NoDB
        /\ loc[p].retErr = "close" /\ connections[loc[p].name] = loc[p].db

\* C4, as stated: a GetConnection that starts after a ClearConnection on the
\* same name has returned, with no other call in between, loads the
\* configuration again and does not return the instance that was cached
\* before the ClearConnection.
C4_ClearThenGet ==
    \A p \in Procs :
        (Returning(p) /\ loc[p].prev.op = "ClearConnection") =>
            /\ loc[p].loaded
            /\ loc[p].prev.inst # NoDB => loc[p].retDb # loc[p].prev.inst

\* C4: A GetConnection that starts after a ClearConnection on the same name
\* has returned without error, with no other call in between, loads the
\* configuration again; it returns either an error and no instance, or an
\* instance it constructed from the configuration it loaded, never the
\* instance that was cached before the ClearConnection.
C4_ClearOkThenGet ==
    \A p \in Procs :
        (Returning(p) /\ loc[p].prev.op = "ClearConnection"
                      /\ loc[p].prev.err = "nil") =>
            /\ loc[p].miss1 /\ ~loc[p].hit2 /\ loc[p].loaded
            /\ loc[p].retErr # "nil" => loc[p].retDb = NoDB
            /\ loc[p].retErr = "nil" =>
                 /\ loc[p].built
                 /\ loc[p].retDb = loc[p].db
                 /\ loc[p].retDb # loc[p].prev.inst
                 /\ insts[loc[p].retDb].cfg = loc[p].cfg
                 /\ insts[loc[p].retDb].inits = 1

\* a GetConnection that rebuilds after a ClearConnection closed an instance
C4_Witness ==
    \E p \in Procs :
        /\ Returning(p) /\ loc[p].prev.op = "ClearConnection"
        /\ loc[p].prev.err = "nil" /\ loc[p].prev.inst # NoDB
        /\ loc[p].built /\ loc[p].retErr = "nil"

\* C5: An invalidate call whose key is the storage path of a connection's
\* configuration (config/n) has called ClearConnection(n) when it returns.
C5_InvalidateClears ==
    \A p \in Procs, n \in Names :
        (/\ pc[p] \in {"Ret", "CC_Ret"} /\ loc[p].op = "invalidate"
         /\ loc[p].arg = ConfigStorePath(n)) =>
            loc[p].cleared /\ loc[p].name = n

\* C6: When CloseIfShutdown, called with one of the two sentinel errors,
\* returns, the name has no entry in the map.
C6_ShutdownUncached ==
    \A p \in Procs :
        (/\ pc[p] = "CC_Ret" /\ loc[p].op = "CloseIfShutdown"
         /\ IsShutdown(loc[p].arg)) =>
            connections[loc[p].name] = NoDB

\* C7: When closeAllDBs returns, Close has been called exactly once on each
\* instance that was cached when it took the lock, whatever the Close calls
\* returned, and the map is empty.
C7_CloseAll ==
    \A p \in Procs :
        (pc[p] = "CA_Ret" /\ loc[p].op = "closeAllDBs") =>
            LET l == loc[p]
            IN  /\ {l.closed[k][1] : k \in 1..Len(l.closed)} = l.pre
                /\ Len(l.closed) = Cardinality(l.pre)
                /\ connections = EmptyMap
                /\ l.todo = {}

\* closeAllDBs over two cached instances, the first Close returning an error
C7_Witness ==
    \E p \in Procs :
        /\ pc[p] = "CA_Ret" /\ loc[p].op = "closeAllDBs"
        /\ Len(loc[p].closed) = 2 /\ ~loc[p].closed[1][2]
        /\ connections = EmptyMap

\* C8: In no state is periodicFunc about to read the connections map while
\* another goroutine holds the exclusive lock and is about to write an entry
\* of the map or to replace the map.
C8_PeriodicLockDiscipline ==
    \A p, q \in Procs :
        ~(/\ ReadsMap(p)
          /\ wlock = q
          /\ WritesMap(q) \/ ReplacesMap(q))

\* the last producer call was Connection(), made while the producer held a
\* handle, and the handle failed its ping
StalePing ==
    /\ last.op = "Connection"
    /\ last.wasInitialized
    /\ last.hadDb # 0
    /\ ~last.pingOk

\* the old handle has been closed exactly once and was not returned
OldHandleClosedOnce ==
    /\ handles[last.hadDb].st = "closed"
    /\ handles[last.hadDb].closes = 1
    /\ last.ret # last.hadDb
    /\ c.db # last.hadDb

\* the call opened a handle with the configured pool bounds, stored it and
\* returned it
NewHandleReturned ==
    /\ last.err = "nil"
    /\ last.opened # 0
    /\ last.ret = last.opened
    /\ c.db = last.opened
    /\ handles[last.opened].st = "open"
    /\ handles[last.opened].maxOpen = c.MaxOpenConnections
    /\ handles[last.opened].maxIdle = c.MaxIdleConnections
    /\ handles[last.opened].lifetime = c.maxConnectionLifetime

\* no handle is closed twice, and a handle that Connection() returns is open
NeverAClosedHandle ==
    /\ \A h \in HandleIds : handles[h].closes <= 1
    /\ (last.op = "Connection" /\ last.ret # 0) =>
            /\ handles[last.ret].st = "open"
            /\ handles[last.ret].closes = 0
            /\ c.db = last.ret

InitializeOk == last.op = "Initialize" /\ last.err = "nil"

\* C11: After a successful Initialize whose conf gives max_open_connections o
\* and max_idle_connections i, the effective max open is 2 when o is 0 and o
\* otherwise, the effective max idle is the effective max open when i is 0 or
\* exceeds it and i otherwise, the effective max open is at least 1 and the
\* effective max idle does not exceed it.
C11_PoolBounds ==
    (InitializeOk /\ last.conf.ints = {K_open, K_idle}) =>
        LET o == last.conf.max_open_connections
            i == last.conf.max_idle_connections
            open == IF o = 0 THEN 2 ELSE o
        IN  /\ c.MaxOpenConnections = open
            /\ c.MaxIdleConnections = IF i = 0 \/ i > open THEN open ELSE i
            /\ c.MaxOpenConnections >= 1
            /\ c.MaxIdleConnections <= c.MaxOpenConnections

\* the conf of the last Initialize call gives a non-empty connection_url and
\* a non-empty username and password
WithCredentials ==
    /\ last.op = "Initialize" /\ ~last.conf.decodeErr
    /\ last.conf.connection_url \notin {AbsentURL, <<>>}
    /\ last.conf.username \notin {Absent, ""}
    /\ last.conf.password \notin {Absent, ""}

\* the call made no connection attempt: it opened nothing and left the
\* producer's handle alone
NoConnectionAttempt == last.opened = 0 /\ c.db = last.hadDb

\* C12: Initialize with a non-empty connection string, username and password
\* fails with the templating error, before any connection attempt, when the
\* connection string lacks either placeholder; with both placeholders and
\* verification off it succeeds unless the lifetime is invalid; an empty
\* connection string always fails with a configuration error.
C12_TemplatedCredentials ==
    /\ WithCredentials =>
         IF \/ ~Contains(last.conf.connection_url, T_username)
            \/ ~Contains(last.conf.connection_url, T_password)
         THEN /\ last.err = "connection_url must be templated"
              /\ NoConnectionAttempt
         ELSE ~last.verify =>
                 last.err \in {"nil", "invalid max_connection_lifetime"}
    /\ (last.op = "Initialize" /\ last.conf.connection_url = <<>>) =>
         /\ last.err = "connection_url cannot be empty"
         /\ NoConnectionAttempt
    /\ (last.op = "Initialize" /\ c.ConnectionURL = <<>>) => last.err # "nil"

\* credentials given with a connection string that holds only the username
\* placeholder: refused
C12_Witness ==
    /\ WithCredentials
    /\ last.conf.connection_url = U_half
    /\ last.err = "connection_url must be templated"
    /\ last.hadDb # 0

\* C13: A handle opened for a producer that holds a username and a password
\* is opened with a connection string in which neither placeholder is left.
C13_CredentialsInjected ==
    (/\ last.opened # 0
     /\ c.Initialized /\ c.Username # "" /\ c.Password # "") =>
        /\ ~Contains(handles[last.opened].conn, T_username)
        /\ ~Contains(handles[last.opened].conn, T_password)

\* an update call that is about to return
UpdateDone == ad.pc = "done" /\ ad.op \in {"UpdatePassword", "UpdateUsername"}

\* the update's search returned exactly one entry
OneMatch == ad.found /\ Len(ad.entries) = 1

\* reading UTF-16LE bytes back into code points
RECURSIVE DecodeUTF16LE(_)
DecodeUTF16LE(b) ==
    IF Len(b) < 2 THEN <<>>
    ELSE LET u == b[1] + 256 * b[2]
         IN  IF u >= 55296 /\ u < 56320 /\ Len(b) >= 4
             THEN LET lo == b[3] + 256 * b[4]
                  IN  <<65536 + (u - 55296) * 1024 + (lo - 56320)>>
                          \o DecodeUTF16LE(SubSeq(b, 5, Len(b)))
             ELSE <<u>> \o DecodeUTF16LE(SubSeq(b, 3, Len(b)))

\* exactly one modify went out: a replace of the one attribute, addressed to
\* the entry found, over the connection that getConnection returned
TheModify ==
    /\ Len(ad.sent) = 1
    /\ ad.sent[1].req.DN = ad.entries[1]
    /\ Len(ad.sent[1].req.vals) = 1
    /\ ad.sent[1].to = ParseUrl(ad.tried[Len(ad.tried)]).host
    /\ IF ad.op = "UpdatePassword"
       THEN /\ ad.sent[1].req.attr = "unicodePwd"
            /\ Len(ad.sent[1].req.vals[1]) % 2 = 0
            /\ DecodeUTF16LE(ad.sent[1].req.vals[1])
                  = <<Quote>> \o ad.arg \o <<Quote>>
       ELSE /\ ad.sent[1].req.attr = "givenName"
            /\ ad.sent[1].req.vals[1] = ad.arg

\* C14, as stated: an update sends exactly one modify, the replace described,
\* when its search returned exactly one entry; otherwise it returns an error
\* and sends no modify.
C14_ModifyIffOneMatch ==
    UpdateDone =>
        IF OneMatch THEN TheModify
        ELSE ad.ret # "nil" /\ ad.sent = <<>>

\* C14: An update sends exactly one modify, the replace described, when its
\* search returned exactly one entry and a connection for the modify was
\* established; in every other case (search failed, zero or several entries,
\* no host connects for the modify) it returns an error and sends no modify.
C14_ModifyOnlyOneMatch ==
    /\ Len(ad.sent) <= 1
    /\ UpdateDone =>
         IF OneMatch /\ ad.ret # "connect" THEN TheModify
         ELSE ad.ret # "nil" /\ ad.sent = <<>>

\* a password with a character outside the basic plane, sent and accepted
C14_Witness ==
    /\ UpdateDone /\ OneMatch /\ TheModify
    /\ ad.op = "UpdatePassword" /\ ad.arg = <<128512, 34>>
    /\ ad.ret = "nil"

\* getConnection has returned a connection in the call's current phase
ADConnected ==
    \/ ad.pc \in {"search", "modify"}
    \/ ad.pc = "done" /\ ad.ret # "connect"

\* C15: The URLs are tried in listed order; a URL is tried only after all
\* before it have failed; the connection returned is the one to the last URL
\* tried, and no URL after it is tried; when every URL has failed the errors
\* returned are one per configured URL, in listed order; a URL that does not
\* parse or has another scheme than ldap or ldaps is never dialed.
C15_ListedOrder ==
    LET urls == Split(adConf.Url)
        n == Len(ad.tried)
    IN  /\ n <= Len(urls)
        /\ \A j \in 1..n : ad.tried[j] = urls[j]
        /\ ad.pc = "connect" => ad.errs = ad.tried /\ ad.k = n + 1
        /\ ADConnected =>
             /\ n >= 1
             /\ ad.errs = SubSeq(ad.tried, 1, n - 1)
             /\ ad.conn # 0 => /\ ad.conns[ad.conn].uut = ad.tried[n]
                               /\ ad.conns[ad.conn].open
        /\ (ad.pc = "done" /\ ad.ret = "connect") =>
             /\ ad.errs = urls
             /\ ad.conn = 0
        /\ \A j \in 1..Len(ad.conns) :
             ParseUrl(ad.conns[j].uut).Scheme \in {"ldap", "ldaps"}

\* failover: the first URL has a scheme that is refused, the second connects
C15_Witness ==
    /\ ad.pc = "search"
    /\ ad.tried = <<L_http, L_ldaps>>
    /\ ad.errs = <<L_http>>
    /\ ad.conn = 1 /\ ad.conns[1].uut = L_ldaps

\* C19: When a directory-client call returns, every transport connection it
\* dialed has been closed.
C19_ConnectionsReleased ==
    ad.pc = "done" =>
        \A j \in 1..Len(ad.conns) :
            ~ad.conns[j].open /\ ad.conns[j].closes = 1

\* the supported identifiers, as NewConfiguration was given them
Supported(v) == v \in TLSVersions

\* C16: NewConfiguration rejects a configuration whose tls_min_version or
\* tls_max_version is empty or not in the version table, and one whose maximum
\* is below its minimum in the table's ordering; for supported identifiers the
\* string comparison decides exactly as the table values do.
C16_TLSVersionsValidated ==
    ldapCfg.pc = "done" =>
        LET min == ldapCfg.fieldData.tls_min_version
            max == ldapCfg.fieldData.tls_max_version
        IN  /\ (~Supported(min) \/ ~Supported(max)) => ~ldapCfg.ret.ok
            /\ (Supported(min) /\ Supported(max) /\ TLSLookup(max) < TLSLookup(min))
                   => ~ldapCfg.ret.ok
            /\ (Supported(min) /\ Supported(max))
                   => (VersionBelow(max, min) <=> TLSLookup(max) < TLSLookup(min))
            /\ (Supported(min) /\ Supported(max) /\ TLSLookup(min) <= TLSLookup(max)
                /\ ldapCfg.fieldData.groupfilter # "bad"
                /\ ldapCfg.fieldData.certificate # "bad")
                   => ldapCfg.ret.ok

C16_Witness ==
    /\ ldapCfg.pc = "done"
    /\ ldapCfg.fieldData.tls_min_version = "tls12"
    /\ ldapCfg.fieldData.tls_max_version = "tls10"
    /\ ldapCfg.fieldData.groupfilter = "ok"
    /\ ldapCfg.fieldData.certificate = "ok"
    /\ ~ldapCfg.ret.ok
    /\ ldapCfg.ret.err = "'tls_max_version' must be greater than or equal"

\* the Role calls that returned the decoded record of the entry e
Decoded(e) == roleCall.pc = "done" /\ roleCall.entry = [kind |-> "json", json |-> e]

\* C17: Role decodes a record that carries a statement set only under the
\* legacy keys to the same four statement fields as the record that carries
\* the set under the canonical keys; a record with only canonical keys has an
\* empty legacy view and keeps its statement fields as stored.
C17_LegacyDecodeEquivalent ==
    \A S \in StatementSets :
        /\ Decoded(LegacyRecord(S)) =>
               /\ roleCall.ret.err = "nil" /\ roleCall.ret.found
               /\ roleCall.ret.Statements = S
               /\ roleCall.ret.Statements
                      = RoleOf([kind |-> "json", json |-> CanonicalRecord(S)]).Statements
        /\ Decoded(CanonicalRecord(S)) =>
               /\ roleCall.ret.err = "nil" /\ roleCall.ret.found
               /\ roleCall.ret.upgradeCh = NoStatements
               /\ roleCall.ret.Statements = S
               /\ RoleOf([kind |-> "json",
                          json |-> CanonicalRecord(roleCall.ret.Statements)]).Statements
                      = roleCall.ret.Statements

C17_Witness ==
    \E S \in StatementSets :
        /\ Decoded(LegacyRecord(S))
        /\ S.CreationStatements = "create"
        /\ S.RevocationStatements = ""
        /\ S.RenewStatements = "revoke"
        /\ roleCall.ret.Statements = S

\* C18: Under concurrent Connection and Close calls on an initialized
\* producer no handle is closed twice, every open handle is the producer's
\* current one (none was overwritten without having been closed), and at most
\* one handle is live.
C18_HandleSerialized ==
    /\ \A h \in HandleIds : handles[h].closes <= 1
    /\ \A h \in HandleIds : handles[h].st = "open" => c.db = h
    /\ Cardinality({h \in HandleIds : handles[h].st = "open"}) <= 1

\* the instances whose Initialize returned success and that were never closed
LiveInsts ==
    {i \in InstIds : insts[i].made /\ insts[i].ok /\ insts[i].closes = 0}

\* no cache operation is in progress and no Close call has returned an error
Quiescent == (\A p \in Procs : pc[p] = "idle") /\ closeErrs = 0

\* the instances this step takes out of the connections map
Dropped == CachedInsts \ CachedInsts'

\* C20: Whenever no cache operation is in progress and no Close call has
\* returned an error, the connections map holds exactly the instances whose
\* Initialize succeeded and on which Close was not called; and no step takes
\* an instance out of the map on which Close was not called before.
C20_MapHoldsLiveInstances ==
    /\ [](Quiescent => CachedInsts = LiveInsts)
    /\ [][\A i \in Dropped : insts[i].closes >= 1]_vars

C20_Witness ==
    /\ Quiescent
    /\ CachedInsts # {}
    /\ lastOp.op = "ClearConnection"
    /\ lastOp.inst # NoDB
    /\ insts[lastOp.inst].closes = 1
    /\ lastOp.inst \notin CachedInsts

\* the goroutines inside an operation that takes the cache's lock
Locking == {p \in Procs : pc[p] # "idle" /\ loc[p].op # "periodicFunc"}

\* the goroutine holds the shared lock and only that one
HoldsShared(p) == p \in rlocks /\ wlock # p

\* the goroutine holds the exclusive lock and only that one
HoldsExclusive(p) == wlock = p /\ p \notin rlocks

HoldsNone(p) == p \notin rlocks /\ wlock # p

\* the positions at which a call has yet to take its first lock, and the one
\* between the two locks of GetConnection
BeforeLock == {"GC_RLock", "CC_Lock", "CA_Lock", "Ret"}

\* the next step of the call in progress on goroutine p
StepOf(p) == GetConnection(p) \/ ClearConnection(p) \/ closeAllDBs(p) \/ Ret(p)

\* C21: Every operation holds exactly the lock its next unlock releases: the
\* shared lock until GetConnection returns on a hit or upgrades, the exclusive
\* lock from then on and throughout ClearConnection and closeAllDBs; a
\* goroutine outside a call, or before its first lock, holds none; the lock is
\* never held shared and exclusively at once; and whenever calls are in
\* progress one of them can take its next step.
C21_LockBalance ==
    /\ wlock # 0 => rlocks = {}
    /\ \A p \in Procs :
         /\ pc[p] = "idle" => HoldsNone(p)
         /\ (pc[p] \in BeforeLock \/ pc[p] = "GC_Lock" \/ pc[p] = "PF_Range")
                => HoldsNone(p)
         /\ pc[p] = "GC_RUnlock" => HoldsShared(p)
         /\ pc[p] \in {"GC_Ret", "CC_Ret", "CA_Ret"} =>
                /\ loc[p].unlockFunc \in {"RUnlock", "Unlock"}
                /\ loc[p].unlockFunc = "RUnlock" =>
                       HoldsShared(p) /\ loc[p].miss1 = FALSE
                /\ loc[p].unlockFunc = "Unlock" => HoldsExclusive(p)
                /\ (pc[p] = "GC_Ret" /\ loc[p].miss1) => loc[p].unlockFunc = "Unlock"
                /\ pc[p] \in {"CC_Ret", "CA_Ret"} => loc[p].unlockFunc = "Unlock"
         /\ pc[p] \in {"GC_Store", "CC_Delete", "CA_Range", "CA_Reset"}
                => HoldsExclusive(p)
    /\ (~fatal /\ Locking # {}) => \E p \in Locking : ENABLED StepOf(p)

C21_Witness ==
    \E p, q \in Procs :
        /\ p # q
        /\ pc[p] = "GC_Ret" /\ loc[p].miss1 /\ loc[p].hit2
        /\ loc[p].unlockFunc = "Unlock" /\ wlock = p
        /\ pc[q] = "CC_Lock"
        /\ ~ENABLED StepOf(q)
        /\ ~fatal

====
